---------------------------- MODULE Spec2Model ----------------------------
(* A model of pg_data_analyzer: the regex gate validate_select_query, the  *)
(* tools execute_query and get_database_schema (src/tools.py) and the      *)
(* sequential pipeline QueryGenerator -> QueryExecutor (src/agent.py).     *)
(* A text is a sequence of one-character strings.                          *)
EXTENDS Naturals, Sequences, FiniteSets

VARIABLES
    query,            \* validate_select_query's argument (gate specifications)
    verdict,          \* its return value: "none" before the call, "True" or "False"
    cleaned_query,    \* its local cleaned_query when it returned (after line 33)
    sent,             \* the texts handed to cursor.execute by execute_query, in order
    agent,            \* the sub-agent of DataAnalyzer that is running
    generated_query,  \* session state key "generated_query" (QueryGenerator's output)
    calls,            \* the QueryExecutor's tool calls so far: [tool, arg, sent, ret]
    gs_pc,            \* get_database_schema: the position of the running call
    schema_info,      \* get_database_schema: the rows cursor.fetchall() returned
    row_i,            \* get_database_schema: index of the next row of the grouping loop
    tables,           \* get_database_schema: the dict tables, as a sequence in insertion order
    table_i,          \* get_database_schema: index of the next table of the rendering loop
    schema_text,      \* get_database_schema: the text built so far, as a sequence of lines
    gs_result         \* get_database_schema: the returned dict

vars == <<query, verdict, cleaned_query, sent, agent, generated_query, calls,
          gs_pc, schema_info, row_i, tables, table_i, schema_text, gs_result>>

gateVars == <<query, verdict, cleaned_query, sent>>
pipeVars == <<agent, generated_query, calls>>
schemaVars == <<gs_pc, schema_info, row_i, tables, table_i, schema_text, gs_result>>

---------------------------------------------------------------------------
(* Characters, as Python's re classifies the ASCII ones that occur.        *)

UpperLetters == <<"A","B","C","D","E","F","G","H","I","J","K","L","M",
                  "N","O","P","Q","R","S","T","U","V","W","X","Y","Z">>
LowerLetters == <<"a","b","c","d","e","f","g","h","i","j","k","l","m",
                  "n","o","p","q","r","s","t","u","v","w","x","y","z">>
Digits == {"0","1","2","3","4","5","6","7","8","9"}

UpperSet == {UpperLetters[i] : i \in DOMAIN UpperLetters}
LowerSet == {LowerLetters[i] : i \in DOMAIN LowerLetters}

\* \w of a str pattern: letters, digits and the underscore.
WordChars == UpperSet \cup LowerSet \cup Digits \cup {"_"}

\* \s, and what str.strip() removes (space and newline occur in the texts).
SpaceChars == {" ", "\n", "\t", "\r"}

\* re.IGNORECASE: a letter matches either case of itself.
UpperOf == [c \in LowerSet |->
              UpperLetters[CHOOSE i \in DOMAIN LowerLetters : LowerLetters[i] = c]]

Upper(c) == IF c \in LowerSet THEN UpperOf[c] ELSE c

IsWord(c) == c \in WordChars

IsSpace(c) == c \in SpaceChars

\* The literal lit occurs in s at position i, compared as re.IGNORECASE compares.
MatchAtI(s, i, lit) ==
    /\ i >= 1
    /\ i + Len(lit) - 1 <= Len(s)
    /\ \A k \in 1..Len(lit) : Upper(s[i + k - 1]) = Upper(lit[k])

\* The literal lit occurs in s at position i (case-sensitive).
MatchAt(s, i, lit) ==
    /\ i >= 1
    /\ i + Len(lit) - 1 <= Len(s)
    /\ \A k \in 1..Len(lit) : s[i + k - 1] = lit[k]

\* \b at the gap before position i of s (i in 1..Len(s)+1).
WordBoundary(s, i) ==
    LET before == i > 1 /\ IsWord(s[i - 1])
        after == i <= Len(s) /\ IsWord(s[i])
    IN before # after

---------------------------------------------------------------------------
(* validate_select_query, src/tools.py lines 20-45.                        *)

\* Index of the first "\n" of s at or after i; 0 when there is none.
FirstNewline(s, i) ==
    IF \E j \in i..Len(s) : s[j] = "\n"
    THEN CHOOSE j \in i..Len(s) : s[j] = "\n" /\ \A k \in i..(j - 1) : s[k] # "\n"
    ELSE 0

\* Index of the first "*/" of s starting at or after i; 0 when there is none.
FirstClose(s, i) ==
    IF \E j \in i..Len(s) : MatchAt(s, j, <<"*", "/">>)
    THEN CHOOSE j \in i..Len(s) :
             /\ MatchAt(s, j, <<"*", "/">>)
             /\ \A k \in i..(j - 1) : ~MatchAt(s, k, <<"*", "/">>)
    ELSE 0

\* re.sub(r'--.*?\n', '', s, flags=re.MULTILINE) from position i on: the
\* leftmost "--" that a newline follows is deleted up to and including the
\* first such newline ('.' matches no newline); a "--" no newline follows
\* matches nothing and stays.
RECURSIVE SubLineComments(_, _)
SubLineComments(s, i) ==
    IF i > Len(s) THEN <<>>
    ELSE IF MatchAt(s, i, <<"-", "-">>) /\ FirstNewline(s, i + 2) # 0
         THEN SubLineComments(s, FirstNewline(s, i + 2) + 1)
         ELSE <<s[i]>> \o SubLineComments(s, i + 1)

\* re.sub(r'/\*.*?\*/', '', s, flags=re.DOTALL) from position i on: the
\* leftmost "/*" is deleted up to and including the first "*/" that starts
\* at least two characters later; nothing is put in its place.
RECURSIVE SubBlockComments(_, _)
SubBlockComments(s, i) ==
    IF i > Len(s) THEN <<>>
    ELSE IF MatchAt(s, i, <<"/", "*">>) /\ FirstClose(s, i + 2) # 0
         THEN SubBlockComments(s, FirstClose(s, i + 2) + 2)
         ELSE <<s[i]>> \o SubBlockComments(s, i + 1)

\* Lines 31-32: line comments are removed first, block comments second.
RemoveComments(s) == SubBlockComments(SubLineComments(s, 1), 1)

\* str.strip(), line 33.
RECURSIVE LStrip(_)
LStrip(s) ==
    IF s # <<>> /\ IsSpace(Head(s)) THEN LStrip(Tail(s)) ELSE s

RECURSIVE RStrip(_)
RStrip(s) ==
    IF s # <<>> /\ IsSpace(s[Len(s)]) THEN RStrip(SubSeq(s, 1, Len(s) - 1)) ELSE s

Strip(s) == RStrip(LStrip(s))

\* Lines 31-33: the value of cleaned_query the checks read.
Cleaned(s) == Strip(RemoveComments(s))

SELECT == <<"S", "E", "L", "E", "C", "T">>

\* A variant of line 36 that searches instead of matching at the start:
\* re.search(r'\bSELECT\b', s, re.IGNORECASE).
SearchSelect(s) ==
    \E i \in 1..Len(s) :
        /\ MatchAtI(s, i, SELECT)
        /\ WordBoundary(s, i)
        /\ WordBoundary(s, i + Len(SELECT))

\* re.match(r'^\s*SELECT\b', s, re.IGNORECASE), line 36.
MatchSelect(s) ==
    LET t == LStrip(s)
    IN /\ MatchAtI(t, 1, SELECT)
       /\ WordBoundary(t, Len(SELECT) + 1)

\* Line 40.
forbidden_keywords ==
    << <<"I","N","S","E","R","T">>, <<"U","P","D","A","T","E">>,
       <<"D","E","L","E","T","E">>, <<"D","R","O","P">>,
       <<"C","R","E","A","T","E">>, <<"A","L","T","E","R">>,
       <<"T","R","U","N","C","A","T","E">> >>

\* re.search(rf'\b{keyword}\b', s, re.IGNORECASE), line 42.
SearchWord(s, keyword) ==
    \E i \in 1..Len(s) :
        /\ MatchAtI(s, i, keyword)
        /\ WordBoundary(s, i)
        /\ WordBoundary(s, i + Len(keyword))

\* Lines 41-43: some keyword of the list is found.
HasForbidden(s) ==
    \E k \in DOMAIN forbidden_keywords : SearchWord(s, forbidden_keywords[k])

\* validate_select_query(query), lines 30-45.
validate_select_query(s) ==
    LET cleaned == Cleaned(s)
    IN IF ~MatchSelect(cleaned) THEN FALSE
       ELSE IF HasForbidden(cleaned) THEN FALSE
       ELSE TRUE

---------------------------------------------------------------------------
(* Input texts: concatenations of a bounded number of lexical fragments.   *)

MaxFrags == 3

MaxDeepFrags == 6

\* Fragments of the shallow gate specification: both cases of SELECT, two
\* forbidden keywords, other leading tokens, comment markers, separators.
GateFragments ==
    { SELECT, <<"s","e","l","e","c","t">>, <<"D","R","O","P">>,
      <<"u","p","d","a","t","e">>, <<"W","I","T","H">>, <<"(">>, <<" ">>,
      <<"\n">>, <<"-","-">>, <<"/","*">>, <<"*","/">>, <<"x">>, <<"_">>,
      <<";">>, <<"'">>, <<"-">> }

\* Fragments of the deep gate specification.
DeepFragments ==
    { SELECT, <<"D","R","O","P">>, <<"-","-">>, <<"\n">>, <<"/","*">>,
      <<"*","/">>, <<"x">>, <<"-">> }

RECURSIVE Flatten(_)
Flatten(fs) == IF fs = <<>> THEN <<>> ELSE Head(fs) \o Flatten(Tail(fs))

\* s is the concatenation of at most n fragments of frags.
IsText(s, frags, n) ==
    \E k \in 0..n : \E fs \in [1..k -> frags] : s = Flatten(fs)

---------------------------------------------------------------------------
(* The gate on its own: one call of validate_select_query on a given text, *)
(* and execute_query on the same text.                                     *)

Idle ==
    /\ agent = "none" /\ generated_query = <<>> /\ calls = <<>>
    /\ gs_pc = "idle" /\ schema_info = <<>> /\ row_i = 1 /\ tables = <<>>
    /\ table_i = 1 /\ schema_text = <<>> /\ gs_result = <<>>

InitGate ==
    /\ IsText(query, GateFragments, MaxFrags)
    /\ verdict = "none" /\ cleaned_query = <<>> /\ sent = <<>>
    /\ Idle

InitDeep ==
    /\ IsText(query, DeepFragments, MaxDeepFrags)
    /\ verdict = "none" /\ cleaned_query = <<>> /\ sent = <<>>
    /\ Idle

\* A call validate_select_query(query): lines 30-45.
ValidateSelectQuery ==
    /\ verdict = "none"
    /\ verdict' = IF validate_select_query(query) THEN "True" ELSE "False"
    /\ cleaned_query' = Cleaned(query)
    /\ UNCHANGED <<query, sent>>
    /\ UNCHANGED pipeVars /\ UNCHANGED schemaVars

\* A call execute_query(query): line 61 hands the argument, as it is, to
\* cursor.execute, whatever the gate said or would say. One call is followed.
ExecuteQuery ==
    /\ sent = <<>>
    /\ sent' = Append(sent, query)
    /\ UNCHANGED <<query, verdict, cleaned_query>>
    /\ UNCHANGED pipeVars /\ UNCHANGED schemaVars

NextGate == ValidateSelectQuery \/ ExecuteQuery

NextDeep == ValidateSelectQuery

SpecGate == InitGate /\ [][NextGate]_vars

SpecDeep == InitDeep /\ [][NextDeep]_vars

---------------------------------------------------------------------------
(* get_database_schema, src/tools.py lines 67-112, statement by statement. *)
(* gs_pc is the statement about to run; an exception raised by any         *)
(* statement of the try block is caught by the handler of line 111.        *)

MaxRows == 2

TableNames == {"accounts", "logs"}
ColumnNames == {"id", "created_at"}

\* The rows information_schema.columns can give (lines 78-87).
Rows ==
    [table_name : TableNames, column_name : ColumnNames,
     data_type : {"text"}, is_nullable : {"YES", "NO"}]

\* What cursor.fetchall() can return, line 89.
FetchResults == UNION { [1..k -> Rows] : k \in 0..MaxRows }

\* The statements of the try block, lines 75-110.
TryPositions == {"connect", "execute", "fetch", "group", "render", "exit"}

NoFrame ==
    /\ gs_pc' = "idle" /\ schema_info' = <<>> /\ row_i' = 1 /\ tables' = <<>>
    /\ table_i' = 1 /\ schema_text' = <<>> /\ gs_result' = <<>>

\* Index in tbls of the entry of table name, 0 when the dict has no such key.
TableIndex(tbls, name) ==
    IF \E k \in DOMAIN tbls : tbls[k].name = name
    THEN CHOOSE k \in DOMAIN tbls : tbls[k].name = name
    ELSE 0

\* Lines 94-101: one pass of the grouping loop over row.
GroupRow(tbls, row) ==
    LET col == [column |-> row.column_name, type |-> row.data_type,
                nullable |-> row.is_nullable]
        withKey == IF TableIndex(tbls, row.table_name) = 0
                   THEN Append(tbls, [name |-> row.table_name, columns |-> <<>>])
                   ELSE tbls
        k == TableIndex(withKey, row.table_name)
    IN [withKey EXCEPT ![k].columns = Append(@, col)]

\* Lines 107-108: the line of one column.
ColumnLine(col) ==
    [kind |-> "column", column |-> col.column, type |-> col.type,
     nullable |-> IF col.nullable = "YES" THEN "NULL" ELSE "NOT NULL"]

\* Lines 105-108: the lines of one table, its header first.
TableLines(tbl) ==
    <<[kind |-> "table", name |-> tbl.name]>>
        \o [k \in DOMAIN tbl.columns |-> ColumnLine(tbl.columns[k])]

\* Line 110: the dict returned when the try block ran to its end.
SchemaResult(text) == [schema |-> text]

\* A variant of line 112 that returns what was built so far:
\* return { 'schema': schema_text }.
PartialResult(text) == [schema |-> text]

\* Line 112: the dict the exception handler returns; text is the text built
\* when the exception was raised.
ErrorResult(text) == [error |-> "Encountered an error"]

\* The agent calls the tool: line 75 is next.
GsCall ==
    /\ agent = "QueryGenerator"
    /\ gs_pc \in {"idle", "returned", "handled"}
    /\ gs_pc' = "connect" /\ schema_info' = <<>> /\ row_i' = 1 /\ tables' = <<>>
    /\ table_i' = 1 /\ schema_text' = <<>> /\ gs_result' = <<>>
    /\ UNCHANGED gateVars /\ UNCHANGED pipeVars

\* Lines 75-76: get_connection() and conn.cursor() succeed.
GsConnect ==
    /\ gs_pc = "connect"
    /\ gs_pc' = "execute"
    /\ UNCHANGED <<schema_info, row_i, tables, table_i, schema_text, gs_result>>
    /\ UNCHANGED gateVars /\ UNCHANGED pipeVars

\* Lines 78-87: cursor.execute succeeds.
GsExecute ==
    /\ gs_pc = "execute"
    /\ gs_pc' = "fetch"
    /\ UNCHANGED <<schema_info, row_i, tables, table_i, schema_text, gs_result>>
    /\ UNCHANGED gateVars /\ UNCHANGED pipeVars

\* Lines 89-92: fetchall returns rows; tables is the empty dict.
GsFetch ==
    /\ gs_pc = "fetch"
    /\ \E rows \in FetchResults : schema_info' = rows
    /\ tables' = <<>> /\ row_i' = 1
    /\ gs_pc' = "group"
    /\ UNCHANGED <<table_i, schema_text, gs_result>>
    /\ UNCHANGED gateVars /\ UNCHANGED pipeVars

\* Lines 93-103: one pass of the grouping loop, or, after the last row,
\* the first line of the text.
GsGroup ==
    /\ gs_pc = "group"
    /\ IF row_i <= Len(schema_info)
       THEN /\ tables' = GroupRow(tables, schema_info[row_i])
            /\ row_i' = row_i + 1
            /\ UNCHANGED <<gs_pc, schema_text, table_i>>
       ELSE /\ schema_text' = <<[kind |-> "title"]>>
            /\ table_i' = 1
            /\ gs_pc' = "render"
            /\ UNCHANGED <<tables, row_i>>
    /\ UNCHANGED <<schema_info, gs_result>>
    /\ UNCHANGED gateVars /\ UNCHANGED pipeVars

\* Lines 104-108: one pass of the rendering loop, or, after the last table,
\* leaving the cursor's with block.
GsRender ==
    /\ gs_pc = "render"
    /\ IF table_i <= Len(tables)
       THEN /\ schema_text' = schema_text \o TableLines(tables[table_i])
            /\ table_i' = table_i + 1
            /\ UNCHANGED gs_pc
       ELSE /\ gs_pc' = "exit"
            /\ UNCHANGED <<schema_text, table_i>>
    /\ UNCHANGED <<schema_info, row_i, tables, gs_result>>
    /\ UNCHANGED gateVars /\ UNCHANGED pipeVars

\* Line 110: the return statement, and the connection's with block left
\* without an exception.
GsReturn ==
    /\ gs_pc = "exit"
    /\ gs_result' = SchemaResult(schema_text)
    /\ gs_pc' = "returned"
    /\ UNCHANGED <<schema_info, row_i, tables, table_i, schema_text>>
    /\ UNCHANGED gateVars /\ UNCHANGED pipeVars

\* Lines 111-112: a statement of the try block raises an Exception (the
\* connection, the query, the fetch, a loop pass, the with blocks' exits);
\* the handler returns.
GsExcept ==
    /\ gs_pc \in TryPositions
    /\ gs_result' = ErrorResult(schema_text)
    /\ gs_pc' = "handled"
    /\ UNCHANGED <<schema_info, row_i, tables, table_i, schema_text>>
    /\ UNCHANGED gateVars /\ UNCHANGED pipeVars

---------------------------------------------------------------------------
(* The pipeline, src/agent.py: DataAnalyzer runs QueryGenerator, then      *)
(* QueryExecutor. What an LlmAgent emits and which tools it calls, with    *)
(* which arguments, is the model's choice.                                 *)

MaxCalls == 2

\* The texts the agents emit and pass to the tools.
PipelineTexts ==
    { Flatten(<<SELECT, <<" ">>, <<"x">>>>),
      Flatten(<<<<"D","R","O","P">>, <<" ">>, <<"x">>>>),
      Flatten(<<SELECT, <<";">>, <<"D","R","O","P">>, <<" ">>, <<"x">>>>) }

Init ==
    /\ query = <<>> /\ verdict = "none" /\ cleaned_query = <<>> /\ sent = <<>>
    /\ agent = "QueryGenerator" /\ generated_query = <<>> /\ calls = <<>>
    /\ gs_pc = "idle" /\ schema_info = <<>> /\ row_i = 1 /\ tables = <<>>
    /\ table_i = 1 /\ schema_text = <<>> /\ gs_result = <<>>

\* agent.py lines 11-22: QueryGenerator ends; its text is stored under
\* output_key "generated_query" and QueryExecutor starts (lines 36-40).
GeneratorFinish ==
    /\ agent = "QueryGenerator"
    /\ gs_pc \in {"idle", "returned", "handled"}
    /\ \E q \in PipelineTexts : generated_query' = q
    /\ agent' = "QueryExecutor"
    /\ NoFrame
    /\ UNCHANGED calls
    /\ UNCHANGED gateVars

\* agent.py line 32: QueryExecutor calls validate_select_query(q).
ToolValidate ==
    /\ agent = "QueryExecutor"
    /\ Len(calls) < MaxCalls
    /\ \E q \in PipelineTexts :
         calls' = Append(calls, [tool |-> "validate_select_query", arg |-> q,
                                 sent |-> FALSE,
                                 ret |-> IF validate_select_query(q)
                                         THEN "True" ELSE "False"])
    /\ UNCHANGED <<agent, generated_query>>
    /\ UNCHANGED gateVars /\ UNCHANGED schemaVars

\* What execute_query(q) does with q (tools.py lines 58-65), by outcome:
\* "no connection" raises before line 61; "rows" and "database error" have
\* handed q to cursor.execute.
ExecuteSends(outcome) == outcome \in {"rows", "database error"}

ExecuteReturn(outcome) == IF outcome = "rows" THEN "result" ELSE "RuntimeError"

\* agent.py line 32: QueryExecutor calls execute_query(q). Nothing in
\* execute_query or in the agent consults the gate.
ToolExecute ==
    /\ agent = "QueryExecutor"
    /\ Len(calls) < MaxCalls
    /\ \E q \in PipelineTexts :
       \E outcome \in {"rows", "database error", "no connection"} :
         /\ calls' = Append(calls, [tool |-> "execute_query", arg |-> q,
                                    sent |-> ExecuteSends(outcome),
                                    ret |-> ExecuteReturn(outcome)])
         /\ sent' = IF ExecuteSends(outcome) THEN Append(sent, q) ELSE sent
    /\ UNCHANGED <<agent, generated_query>>
    /\ UNCHANGED <<query, verdict, cleaned_query>> /\ UNCHANGED schemaVars

\* QueryExecutor ends; its text is stored under "query_result".
ExecutorFinish ==
    /\ agent = "QueryExecutor"
    /\ agent' = "done"
    /\ UNCHANGED <<generated_query, calls>>
    /\ UNCHANGED gateVars /\ UNCHANGED schemaVars

Next ==
    \/ GsCall \/ GsConnect \/ GsExecute \/ GsFetch \/ GsGroup \/ GsRender
    \/ GsReturn \/ GsExcept
    \/ GeneratorFinish \/ ToolValidate \/ ToolExecute \/ ExecutorFinish

Spec == Init /\ [][Next]_vars

---------------------------------------------------------------------------
(* Notions the properties are stated with.                                 *)

Called == verdict # "none"

\* Position i of s lies in a "--" span running to the end of its line, or
\* between a "/*" and a later "*/", the markers included: every span a
\* reader could take for a comment.
InSomeSpan(s, i) ==
    \/ \E j \in 1..i :
         /\ MatchAt(s, j, <<"-", "-">>)
         /\ \A k \in j..(i - 1) : s[k] # "\n"
    \/ \E j \in 1..i : \E k \in (j + 2)..Len(s) :
         /\ MatchAt(s, j, <<"/", "*">>)
         /\ MatchAt(s, k, <<"*", "/">>)
         /\ i <= k + 1

\* keyword occurs in s at i as a whole word.
WholeWordAt(s, i, keyword) ==
    /\ MatchAtI(s, i, keyword)
    /\ WordBoundary(s, i)
    /\ WordBoundary(s, i + Len(keyword))

\* s holds a whole-word forbidden keyword none of whose characters lies in
\* any span a reader could take for a comment.
KeywordOutsideSpans(s) ==
    \E k \in DOMAIN forbidden_keywords : \E i \in 1..Len(s) :
        /\ WholeWordAt(s, i, forbidden_keywords[k])
        /\ \A p \in i..(i + Len(forbidden_keywords[k]) - 1) : ~InSomeSpan(s, p)

\* s begins with the word SELECT, in either case.
StartsWithSelectWord(s) ==
    /\ MatchAtI(s, 1, SELECT)
    /\ (Len(s) > Len(SELECT) => ~IsWord(s[Len(SELECT) + 1]))

\* s begins with the letters of SELECT, in either case.
StartsWithSelect(s) == MatchAtI(s, 1, SELECT)

\* The text PostgreSQL's lexer keeps of s from position i on: a quoted
\* string is kept as it is, "--" outside strings and block comments hides
\* the rest of its line, "/*" outside strings opens a block comment that
\* nests and ends at its matching "*/"; a comment counts as one space.
RECURSIVE DbLex(_, _, _, _)
DbLex(s, i, inString, depth) ==
    IF i > Len(s) THEN <<>>
    ELSE IF depth > 0
         THEN IF MatchAt(s, i, <<"*", "/">>)
              THEN (IF depth = 1 THEN <<" ">> ELSE <<>>)
                       \o DbLex(s, i + 2, FALSE, depth - 1)
              ELSE IF MatchAt(s, i, <<"/", "*">>)
                   THEN DbLex(s, i + 2, FALSE, depth + 1)
                   ELSE DbLex(s, i + 1, FALSE, depth)
    ELSE IF inString
         THEN <<s[i]>> \o DbLex(s, i + 1, s[i] # "'", 0)
    ELSE IF s[i] = "'"
         THEN <<s[i]>> \o DbLex(s, i + 1, TRUE, 0)
    ELSE IF MatchAt(s, i, <<"-", "-">>)
         THEN <<" ">> \o DbLex(s, IF FirstNewline(s, i) = 0 THEN Len(s) + 1
                                  ELSE FirstNewline(s, i), FALSE, 0)
    ELSE IF MatchAt(s, i, <<"/", "*">>)
         THEN DbLex(s, i + 2, FALSE, 1)
    ELSE <<s[i]>> \o DbLex(s, i + 1, FALSE, 0)

DbVisible(s) == DbLex(s, 1, FALSE, 0)

\* PostgreSQL lexes s to its end: no string and no block comment is left open.
RECURSIVE DbLexEnds(_, _, _, _)
DbLexEnds(s, i, inString, depth) ==
    IF i > Len(s) THEN ~inString /\ depth = 0
    ELSE IF depth > 0
         THEN IF MatchAt(s, i, <<"*", "/">>) THEN DbLexEnds(s, i + 2, FALSE, depth - 1)
              ELSE IF MatchAt(s, i, <<"/", "*">>) THEN DbLexEnds(s, i + 2, FALSE, depth + 1)
                   ELSE DbLexEnds(s, i + 1, FALSE, depth)
    ELSE IF inString THEN DbLexEnds(s, i + 1, s[i] # "'", 0)
    ELSE IF s[i] = "'" THEN DbLexEnds(s, i + 1, TRUE, 0)
    ELSE IF MatchAt(s, i, <<"-", "-">>)
         THEN FirstNewline(s, i) = 0 \/ DbLexEnds(s, FirstNewline(s, i), FALSE, 0)
    ELSE IF MatchAt(s, i, <<"/", "*">>) THEN DbLexEnds(s, i + 2, FALSE, 1)
    ELSE DbLexEnds(s, i + 1, FALSE, 0)

DbWellFormed(s) == DbLexEnds(s, 1, FALSE, 0)

\* s holds one of the three comment or quote markers.
HasMarker(s) ==
    \E i \in 1..Len(s) :
        \/ MatchAt(s, i, <<"-", "-">>) \/ MatchAt(s, i, <<"/", "*">>)
        \/ MatchAt(s, i, <<"*", "/">>) \/ s[i] = "'"

\* Every occurrence in s of a forbidden keyword's letters has a letter, a
\* digit or an underscore right before it or right after it.
KeywordsOnlyInsideWords(s) ==
    \A k \in DOMAIN forbidden_keywords : \A i \in 1..Len(s) :
        MatchAtI(s, i, forbidden_keywords[k]) =>
            \/ (i > 1 /\ IsWord(s[i - 1]))
            \/ (i + Len(forbidden_keywords[k]) <= Len(s)
                /\ IsWord(s[i + Len(forbidden_keywords[k])]))

\* s is a SELECT, free of markers and forbidden keywords, followed on its
\* last line by a "--" comment that holds a forbidden keyword.
TrailingLineComment(s) ==
    \E j \in 1..Len(s) :
        /\ MatchAt(s, j, <<"-", "-">>)
        /\ FirstNewline(s, j) = 0
        /\ StartsWithSelectWord(SubSeq(s, 1, j - 1))
        /\ ~HasMarker(SubSeq(s, 1, j - 1))
        /\ ~HasForbidden(SubSeq(s, 1, j - 1))
        /\ HasForbidden(SubSeq(s, j + 2, Len(s)))

---------------------------------------------------------------------------
(* The properties.                                                         *)

\* C1: in every run of the pipeline, execute_query(q) hands q to the
\* database only if an earlier call validate_select_query(q), on the same
\* text, returned True.
C1_ExecuteOnlyAfterPositiveVerdict ==
    \A i \in DOMAIN calls :
        (calls[i].tool = "execute_query" /\ calls[i].sent) =>
            \E j \in 1..(i - 1) :
                /\ calls[j].tool = "validate_select_query"
                /\ calls[j].arg = calls[i].arg
                /\ calls[j].ret = "True"

\* C2: a text with a whole-word forbidden keyword outside every comment span
\* is rejected, whether or not it starts with SELECT.
C2_KeywordOutsideCommentsRejected ==
    (Called /\ KeywordOutsideSpans(query)) => verdict = "False"

\* C3: a text that, comments stripped and trimmed, starts with SELECT and
\* holds no whole-word forbidden keyword outside comments is accepted.
\* "Starts with SELECT" is read as the word SELECT and "outside comments"
\* as PostgreSQL lexes a text it lexes to the end: the reading under
\* which the statement claims least.
C3_SelectWithoutKeywordAccepted ==
    (/\ Called
     /\ DbWellFormed(query)
     /\ StartsWithSelectWord(cleaned_query)
     /\ ~HasForbidden(DbVisible(query))) => verdict = "True"

\* C4: a SELECT whose only forbidden keywords lie after a "--" on its last
\* line, which the end of the text ends, is accepted.
C4_TrailingLineCommentStripped ==
    (Called /\ TrailingLineComment(query)) => verdict = "True"

\* C5: comment stripping is idempotent: stripping the stripped text again
\* changes nothing.
C5_StrippingIdempotent ==
    Called => RemoveComments(RemoveComments(query)) = RemoveComments(query)

\* C6: a text that, comments stripped and trimmed, does not start with
\* SELECT (in either case) is rejected.
C6_NonSelectRejected ==
    (Called /\ ~StartsWithSelect(cleaned_query)) => verdict = "False"

\* C6 witness: a text with a leading WITH that holds SELECT further on has
\* been rejected.
C6_Witness ==
    /\ verdict = "False"
    /\ MatchAt(cleaned_query, 1, <<"W","I","T","H">>)
    /\ \E i \in 1..Len(cleaned_query) : WholeWordAt(cleaned_query, i, SELECT)
    /\ ~HasForbidden(cleaned_query)

\* C7: a query that starts with SELECT and in which every occurrence of a
\* forbidden keyword's letters is part of a longer word is accepted.
C7_WholeWordsOnly ==
    (/\ Called
     /\ StartsWithSelectWord(query)
     /\ KeywordsOnlyInsideWords(query)) => verdict = "True"

\* C9: get_database_schema returns, from the handler, a dict holding only
\* "error", or, from line 110, a dict holding only "schema" whose text
\* has every fetched row under its table; it returns nothing else.
C9_SchemaOrErrorNeverPartial ==
    /\ gs_pc = "handled" => DOMAIN gs_result = {"error"}
    /\ gs_pc = "returned" =>
         /\ DOMAIN gs_result = {"schema"}
         /\ row_i = Len(schema_info) + 1
         /\ Cardinality({p \in DOMAIN gs_result.schema :
                            gs_result.schema[p].kind = "column"}) = Len(schema_info)
         /\ \A r \in DOMAIN schema_info :
              \E t \in DOMAIN gs_result.schema : \E p \in DOMAIN gs_result.schema :
                /\ t < p
                /\ gs_result.schema[t] =
                       [kind |-> "table", name |-> schema_info[r].table_name]
                /\ \A m \in (t + 1)..p : gs_result.schema[m].kind = "column"
                /\ gs_result.schema[p].column = schema_info[r].column_name
                /\ gs_result.schema[p].type = schema_info[r].data_type
                /\ gs_result.schema[p].nullable =
                       (IF schema_info[r].is_nullable = "YES" THEN "NULL" ELSE "NOT NULL")

\* C9 witness: a call failed after two rows of two tables were fetched and
\* part of the text was built, and returned the error dict.
C9_Witness ==
    /\ gs_pc = "handled"
    /\ Len(schema_info) = 2
    /\ Len(tables) = 2
    /\ Len(schema_text) > 1
    /\ DOMAIN gs_result = {"error"}

\* C10: a text the gate accepts holds, as PostgreSQL lexes the unmodified
\* text, no whole-word forbidden keyword outside comments.
C10_AcceptedTextHidesNothing ==
    (verdict = "True" /\ DbWellFormed(query)) => ~HasForbidden(DbVisible(query))

============================================================================
